---------------------------- MODULE Spec2Model ----------------------------
(***************************************************************************)
(* Model of SPP_Ingredients_Allocation_App.py: the cached loader of the    *)
(* CHECK_OUT worksheet, the cached proportion calculation, the allocator   *)
(* and the Streamlit script that drives them.                              *)
(*                                                                         *)
(* Numbers.  pandas computes in IEEE doubles.  A double is modelled as an  *)
(* exact rational n/d in lowest terms, or as one of nan, +inf, -inf, with  *)
(* the IEEE results for division by zero and for operations on nan/inf.    *)
(* Rounding error of the doubles (relative 2^-53) is not modelled.         *)
(*                                                                         *)
(* Text.  A serial, a name or an identifier is a sequence of one-character *)
(* strings; a department is a one-character string.                        *)
(***************************************************************************)
EXTENDS Integers, Sequences, FiniteSets, TLC

VARIABLES
    sheet,              \* rows of worksheet CHECK_OUT (remote, may be edited)
    load_cache,         \* st.cache_data store of load_data_from_google_sheet
    fetch_count,        \* number of worksheet.get_all_records() calls made
    data,               \* module-level `data` of the latest script run
    proportion_cache,   \* st.cache_data store of calculate_proportion
    sort_ties,          \* how this pandas build orders equal keys (quicksort)
    selected_identifiers, \* value of the multiselect widget
    item_quantities,    \* item_quantities of the latest run / call
    last_call           \* the latest call made and what it returned

vars == <<sheet, load_cache, fetch_count, data, proportion_cache, sort_ties,
          selected_identifiers, item_quantities, last_call>>

-----------------------------------------------------------------------------
(* Bounds of the model *)

MaxRecords == 3

MaxRequest == 2

MaxMatchRecords == 2

MaxSheetRows == 2

MaxFetches == 2

MaxEntered == 2

(* Program constants *)

CutoffYear == 2024

MaxSelections == 10

-----------------------------------------------------------------------------
(* IEEE doubles as exact rationals plus nan and the infinities *)

Abs(x) == IF x < 0 THEN -x ELSE x

Sign(x) == IF x < 0 THEN -1 ELSE IF x = 0 THEN 0 ELSE 1

RECURSIVE Gcd(_, _)
Gcd(a, b) == IF b = 0 THEN a ELSE Gcd(b, a % b)

NaN == [cls |-> "nan", n |-> 0, d |-> 1]

PosInf == [cls |-> "inf", n |-> 1, d |-> 1]

NegInf == [cls |-> "inf", n |-> -1, d |-> 1]

Fin(n, d) ==
    LET g == Gcd(Abs(n), Abs(d))
    IN  [cls |-> "fin", n |-> (Sign(d) * n) \div g, d |-> Abs(d) \div g]

IsFinite(x) == x.cls = "fin"

IsNaN(x) == x.cls = "nan"

FAdd(x, y) ==
    IF IsNaN(x) \/ IsNaN(y) THEN NaN
    ELSE IF IsFinite(x) /\ IsFinite(y) THEN Fin(x.n * y.d + y.n * x.d, x.d * y.d)
    ELSE IF IsFinite(x) THEN y
    ELSE IF IsFinite(y) THEN x
    ELSE IF x.n = y.n THEN x ELSE NaN

FMul(x, y) ==
    IF IsNaN(x) \/ IsNaN(y) THEN NaN
    ELSE IF IsFinite(x) /\ IsFinite(y) THEN Fin(x.n * y.n, x.d * y.d)
    ELSE IF Sign(x.n) * Sign(y.n) = 0 THEN NaN
    ELSE IF Sign(x.n) * Sign(y.n) > 0 THEN PosInf ELSE NegInf

FDiv(x, y) ==
    IF IsNaN(x) \/ IsNaN(y) THEN NaN
    ELSE IF IsFinite(x) /\ IsFinite(y) THEN
        IF y.n # 0 THEN Fin(x.n * y.d, x.d * y.n)
        ELSE IF x.n = 0 THEN NaN
        ELSE IF x.n > 0 THEN PosInf ELSE NegInf
    ELSE IF IsFinite(x) THEN Fin(0, 1)
    ELSE IF ~IsFinite(y) THEN NaN
    ELSE IF Sign(x.n) * (IF y.n < 0 THEN -1 ELSE 1) > 0 THEN PosInf ELSE NegInf

(* x > y on doubles: false whenever either side is nan *)
FGt(x, y) ==
    IF IsNaN(x) \/ IsNaN(y) THEN FALSE
    ELSE IF IsFinite(x) /\ IsFinite(y) THEN x.n * y.d > y.n * x.d
    ELSE IF IsFinite(x) THEN y.n < 0
    ELSE IF IsFinite(y) THEN x.n > 0
    ELSE x.n > y.n

(* floor of n/d for d > 0; \div of TLA+ rounds towards minus infinity *)
Floor(n, d) == n \div d

(* a rounding that drops the fraction *)
RoundDown(x) == IF ~IsFinite(x) THEN x ELSE Fin(Floor(x.n, x.d), 1)

(* numpy's round: to the nearest integer, a tie going to the even one *)
RoundHalfEven(x) ==
    IF ~IsFinite(x) THEN x
    ELSE LET f == Floor(x.n, x.d)
             twice == 2 * (x.n - f * x.d)
         IN  IF twice < x.d THEN Fin(f, 1)
             ELSE IF twice > x.d THEN Fin(f + 1, 1)
             ELSE IF f % 2 = 0 THEN Fin(f, 1) ELSE Fin(f + 1, 1)

-----------------------------------------------------------------------------
(* Text: str.lower() and the ordering of one-character strings *)

Ord(c) ==
    CASE c = "1" -> 49
      [] c = "A" -> 65
      [] c = "B" -> 66
      [] c = "C" -> 67
      [] c = "Z" -> 90
      [] c = "a" -> 97
      [] c = "b" -> 98
      [] c = "c" -> 99
      [] c = "z" -> 122

LowerChar(c) ==
    CASE c = "A" -> "a"
      [] c = "B" -> "b"
      [] c = "C" -> "c"
      [] c = "Z" -> "z"
      [] OTHER -> c

(* a comparison that keeps the case *)
keep_case(s) == s

lower(s) == [i \in 1..Len(s) |-> LowerChar(s[i])]


-----------------------------------------------------------------------------
(* Data frames.  A frame is a sequence of rows, a row a function from      *)
(* column names to values.  None is Python's None.                         *)

None == [none |-> TRUE, rows |-> <<>>]

DataFrame(rows) == [none |-> FALSE, rows |-> rows]

Indices(s) == 1..Len(s)

(* df[mask]: the rows of s whose index is in keep, in their order *)
RECURSIVE Take(_, _, _)
Take(s, keep, i) ==
    IF i > Len(s) THEN <<>>
    ELSE IF i \in keep THEN <<s[i]>> \o Take(s, keep, i + 1)
    ELSE Take(s, keep, i + 1)

(* the elements of a set of one-character strings in ascending order *)
RECURSIVE Sorted(_)
Sorted(S) ==
    IF S = {} THEN <<>>
    ELSE LET m == CHOOSE x \in S : \A y \in S : Ord(x) <= Ord(y)
         IN  <<m>> \o Sorted(S \ {m})

RECURSIVE SumQuantity(_, _)
SumQuantity(rows, i) ==
    IF i > Len(rows) THEN Fin(0, 1)
    ELSE FAdd(rows[i].QUANTITY, SumQuantity(rows, i + 1))

-----------------------------------------------------------------------------
(* calculate_proportion *)

(* the boolean mask of lines 53-54, as the set of row numbers it keeps *)
IdentifierMask(df, identifier) ==
    {i \in Indices(df) : \/ lower(df[i].ITEM_SERIAL) = identifier
                         \/ lower(df[i].ITEM_NAME) = identifier}

(* filtered_df.groupby("DEPARTMENT_CAT")["QUANTITY"].sum(): one row per *)
(* department, in ascending order of the department key                  *)
GroupByDepartmentSum(filtered_df) ==
    LET keys == Sorted({filtered_df[i].DEPARTMENT_CAT : i \in Indices(filtered_df)})
    IN  [k \in Indices(keys) |->
            [DEPARTMENT_CAT |-> keys[k],
             QUANTITY |-> SumQuantity(
                 Take(filtered_df,
                      {i \in Indices(filtered_df) :
                          filtered_df[i].DEPARTMENT_CAT = keys[k]}, 1), 1)]]

(* Series.sort_values(ascending=False) with the default kind="quicksort",  *)
(* na_position="last".  quicksort promises no order among equal keys: a    *)
(* build whose sort_values reverses the ascending argsort returns equal    *)
(* keys in reverse input order ("reversed"), one that sorts the reversed   *)
(* input and reverses the result returns them in input order ("stable").   *)
(* nan rows go last, in input order, in both.                              *)
ComesBefore(rows, ties, j, i) ==
    LET x == rows[j].QUANTITY
        y == rows[i].QUANTITY
    IN  IF IsNaN(x) THEN IsNaN(y) /\ j < i
        ELSE IF IsNaN(y) THEN TRUE
        ELSE \/ FGt(x, y)
             \/ /\ ~FGt(y, x)
                /\ IF ties = "stable" THEN j < i ELSE j > i

(* the same sort with ascending=True *)
sort_values_ascending(rows, ties) ==
    [k \in Indices(rows) |->
        rows[CHOOSE i \in Indices(rows) :
                Cardinality({j \in Indices(rows) : ComesBefore(rows, ties, i, j)})
                    = k - 1]]

sort_values_descending(rows, ties) ==
    [k \in Indices(rows) |->
        rows[CHOOSE i \in Indices(rows) :
                Cardinality({j \in Indices(rows) : ComesBefore(rows, ties, j, i)})
                    = k - 1]]

calculate_proportion(df, identifier_arg, ties) ==
    LET identifier == lower(identifier_arg)
        filtered_df == Take(df, IdentifierMask(df, identifier), 1)
        usage_summary == GroupByDepartmentSum(filtered_df)
        total == SumQuantity(usage_summary, 1)
        proportions ==
            [k \in Indices(usage_summary) |->
                [DEPARTMENT_CAT |-> usage_summary[k].DEPARTMENT_CAT,
                 QUANTITY |-> FMul(FDiv(usage_summary[k].QUANTITY, total),
                                   Fin(100, 1))]]
    IN  IF filtered_df = <<>> THEN None
        ELSE DataFrame(sort_values_descending(proportions, ties))

-----------------------------------------------------------------------------
(* st.cache_data: a store of pickled return values keyed by the call's      *)
(* arguments.  The table never changes after the load, so an entry is keyed *)
(* by the identifier as passed.  A store is a set of [key, value] records.  *)

IsCached(cache, key) == \E e \in cache : e.key = key

Cached(cache, key) == (CHOOSE e \in cache : e.key = key).value

Store(cache, key, value) == {e \in cache : e.key # key} \cup {[key |-> key, value |-> value]}

(* a store that hands out its own object instead of a copy *)
SharedWithCaller(stored, mutated) == mutated

(* What the store holds for an entry once the caller has changed, in place, *)
(* the frame the call handed out: the store keeps its own pickled copy.     *)
StoredAfterCallerMutation(stored, mutated) == stored

(* calculate_proportion behind @st.cache_data *)
cached_calculate_proportion(cache, df, identifier, ties) ==
    IF IsCached(cache, identifier) THEN Cached(cache, identifier)
    ELSE calculate_proportion(df, identifier, ties)

-----------------------------------------------------------------------------
(* allocate_quantity *)

HasColumn(frame, c) == \A k \in Indices(frame.rows) : c \in DOMAIN frame.rows[k]

(* an allocation that hands what rounding left over to the first row *)
AllocatedFrameReconciled(proportions, quantity) ==
    LET share(k) ==
            RoundHalfEven(FMul(FDiv(proportions.rows[k]["QUANTITY"], Fin(100, 1)),
                               quantity))
        RECURSIVE total(_)
        total(k) == IF k > Len(proportions.rows) THEN Fin(0, 1)
                    ELSE FAdd(share(k), total(k + 1))
        left == FAdd(quantity, FMul(Fin(-1, 1), total(1)))
    IN  DataFrame([k \in Indices(proportions.rows) |->
            ("Department" :> proportions.rows[k]["DEPARTMENT_CAT"])
            @@ ("Proportion (%)" :> proportions.rows[k]["QUANTITY"])
            @@ ("Allocated Quantity" :>
                   IF k = 1 THEN FAdd(share(k), left) ELSE share(k))])

(* lines 72-76: the new column, its rounding, and the renaming *)
AllocatedFrame(proportions, quantity) ==
    DataFrame([k \in Indices(proportions.rows) |->
        ("Department" :> proportions.rows[k]["DEPARTMENT_CAT"])
        @@ ("Proportion (%)" :> proportions.rows[k]["QUANTITY"])
        @@ ("Allocated Quantity" :>
               RoundHalfEven(FMul(FDiv(proportions.rows[k]["QUANTITY"], Fin(100, 1)),
                                  quantity)))])

(* a loop that maps an identifier without data to an empty table *)
KeepEmptyItem(allocations, item) ==
    Append(allocations, [item |-> item, table |-> DataFrame(<<>>)])

(* What the loop does with an identifier whose proportions are None *)
SkipItem(allocations, item) == allocations

(* The loop of lines 67-78 from the i-th (item, quantity) pair on.  The     *)
(* result carries the store as the calls leave it and the exception raised. *)
RECURSIVE AllocateFrom(_, _, _, _, _, _)
AllocateFrom(df, requests, i, cache, allocations, ties) ==
    IF i > Len(requests)
    THEN [raised |-> "", allocations |-> allocations, cache |-> cache]
    ELSE LET item == requests[i].item
             quantity == requests[i].quantity
             proportions == cached_calculate_proportion(cache, df, item, ties)
             stored == Store(cache, item, proportions)
         IN  IF proportions.none
             THEN AllocateFrom(df, requests, i + 1, stored,
                               SkipItem(allocations, item), ties)
             ELSE IF ~HasColumn(proportions, "QUANTITY")
             THEN [raised |-> "KeyError", allocations |-> allocations,
                   cache |-> stored]
             ELSE LET table == AllocatedFrame(proportions, quantity)
                  IN  AllocateFrom(df, requests, i + 1,
                          Store(cache, item,
                                StoredAfterCallerMutation(proportions, table)),
                          Append(allocations, [item |-> item, table |-> table]),
                          ties)

allocate_quantity(df, requests, cache, ties) ==
    AllocateFrom(df, requests, 1, cache, <<>>, ties)

-----------------------------------------------------------------------------
(* load_data_from_google_sheet.  A worksheet cell that holds a date is    *)
(* [parses, year], one that holds a quantity is [numeric, value]: what    *)
(* pd.to_datetime and pd.to_numeric make of the cell's text.  The QUARTER *)
(* column, derived from DATE and read nowhere, is left out.               *)

NaT == [nat |-> TRUE, year |-> 0]

Timestamp(year) == [nat |-> FALSE, year |-> year]

(* pd.to_datetime(cell, errors="coerce") *)
to_datetime(cell) == IF cell.parses THEN Timestamp(cell.year) ELSE NaT

(* pd.to_numeric(cell, errors="coerce") *)
to_numeric(cell) == IF cell.numeric THEN Fin(cell.value, 1) ELSE NaN

(* a load that keeps the rows without a quantity *)
keep_na(df) == df

(* df.dropna(subset=["QUANTITY"]) *)
dropna_quantity(df) == Take(df, {i \in Indices(df) : ~IsNaN(df[i].QUANTITY)}, 1)

(* df[df["DATE"].dt.year >= 2024]: the year of NaT is nan, and nan >= 2024 *)
(* is False                                                               *)
from_cutoff_year(df) ==
    Take(df, {i \in Indices(df) : ~df[i].DATE.nat /\ df[i].DATE.year >= CutoffYear}, 1)

(* lines 35-47.  With no record at all the frame has no column and the    *)
(* assignment of the 13 column names raises ValueError.                   *)
load_data_from_google_sheet(records) ==
    IF records = <<>> THEN [raised |-> "ValueError", table |-> <<>>]
    ELSE LET df == [i \in Indices(records) |->
                       [DATE |-> to_datetime(records[i].DATE),
                        ITEM_SERIAL |-> records[i].ITEM_SERIAL,
                        ITEM_NAME |-> records[i].ITEM_NAME,
                        DEPARTMENT_CAT |-> records[i].DEPARTMENT_CAT,
                        QUANTITY |-> to_numeric(records[i].QUANTITY)]]
         IN  [raised |-> "", table |-> from_cutoff_year(dropna_quantity(df))]

-----------------------------------------------------------------------------
(* Inputs of the calculator: cleaned tables, identifiers, requests *)

Str(a, b) == <<a, b>>

Departments == {"A", "B", "C"}

SortBuilds == {"stable", "reversed"}

(* sequences over S of length at most n *)
SeqsUpTo(S, n) == UNION {[1..k -> S] : k \in 0..n}

(* sequences of distinct elements of S, of length 1 to n *)
DistinctSeqs(S, n) ==
    {q \in UNION {[1..k -> S] : k \in 1..n} :
        \A i, j \in Indices(q) : i # j => q[i] # q[j]}

UsageRecord(serial, name, department, quantity) ==
    [DATE |-> Timestamp(CutoffYear), ITEM_SERIAL |-> serial, ITEM_NAME |-> name,
     DEPARTMENT_CAT |-> department, QUANTITY |-> Fin(quantity, 1)]

(* one item used by three departments: equal usage, unequal usage, a zero *)
(* quantity and a negative one (a correction entry)                       *)
ShareUsage ==
    {<<"A", 30>>, <<"B", 30>>, <<"C", 30>>, <<"B", 70>>, <<"A", 0>>, <<"B", -30>>}

ShareRecords ==
    {UsageRecord(Str("a", "1"), Str("A", "b"), u[1], u[2]) : u \in ShareUsage}

ShareIdentifiers == {Str("a", "1")}

ShareRequestQuantities == {Fin(0, 1), Fin(1, 2), Fin(1, 1), Fin(50, 1)}

ShareRequests ==
    {<<[item |-> id, quantity |-> q]>> :
        id \in ShareIdentifiers, q \in ShareRequestQuantities}

(* records of one item typed in two cases (serial a1 / A1, name Ab / ab) *)
(* and of another item (serial b1) whose name is spelled like that serial *)
MatchUsage ==
    {<<Str("a", "1"), Str("A", "b"), "A">>,
     <<Str("A", "1"), Str("a", "b"), "B">>,
     <<Str("b", "1"), Str("A", "1"), "B">>}

MatchRecords == {UsageRecord(u[1], u[2], u[3], 30) : u \in MatchUsage}

MatchIdentifiers == {Str("a", "1"), Str("A", "1"), Str("A", "B")}

MatchRequests ==
    {[k \in Indices(ids) |-> [item |-> ids[k], quantity |-> Fin(50, 1)]] :
        ids \in DistinctSeqs(MatchIdentifiers, MaxRequest)}

-----------------------------------------------------------------------------
(* Calls of the two functions on a table, as a test makes them *)

NoCall ==
    [function |-> "", identifier |-> <<>>, requests |-> <<>>,
     proportions |-> None, allocations |-> <<>>, raised |-> "",
     button |-> FALSE, shown |-> ""]

(* a call of calculate_proportion(data, identifier) *)
CallCalculateProportion(identifier) ==
    LET proportions ==
            cached_calculate_proportion(proportion_cache, data, identifier, sort_ties)
    IN  /\ proportion_cache' = Store(proportion_cache, identifier, proportions)
        /\ last_call' = [NoCall EXCEPT !.function = "calculate_proportion",
                                       !.identifier = identifier,
                                       !.proportions = proportions]
        /\ UNCHANGED <<sheet, load_cache, fetch_count, data, sort_ties,
                       selected_identifiers, item_quantities>>

(* a call of allocate_quantity(data, requests) *)
CallAllocateQuantity(requests) ==
    LET out == allocate_quantity(data, requests, proportion_cache, sort_ties)
    IN  /\ proportion_cache' = out.cache
        /\ item_quantities' = requests
        /\ last_call' = [NoCall EXCEPT !.function = "allocate_quantity",
                                       !.requests = requests,
                                       !.allocations = out.allocations,
                                       !.raised = out.raised]
        /\ UNCHANGED <<sheet, load_cache, fetch_count, data, sort_ties,
                       selected_identifiers>>

InitCalculator(tables) ==
    /\ data \in tables
    /\ sheet = <<>>
    /\ load_cache = {}
    /\ fetch_count = 0
    /\ proportion_cache = {}
    /\ sort_ties \in SortBuilds
    /\ selected_identifiers = <<>>
    /\ item_quantities = <<>>
    /\ last_call = NoCall

InitShares == InitCalculator(SeqsUpTo(ShareRecords, MaxRecords))

NextShares ==
    \/ \E identifier \in ShareIdentifiers : CallCalculateProportion(identifier)
    \/ \E requests \in ShareRequests : CallAllocateQuantity(requests)

SpecShares == InitShares /\ [][NextShares]_vars

InitMatch == InitCalculator(SeqsUpTo(MatchRecords, MaxMatchRecords))

NextMatch ==
    \/ \E identifier \in MatchIdentifiers : CallCalculateProportion(identifier)
    \/ \E requests \in MatchRequests : CallAllocateQuantity(requests)

SpecMatch == InitMatch /\ [][NextMatch]_vars

-----------------------------------------------------------------------------
(* What the claims speak of, stated without the code's operators *)

CasePairs == {<<"a", "A">>, <<"b", "B">>, <<"c", "C">>, <<"z", "Z">>}

SameLetter(c, d) == c = d \/ <<c, d>> \in CasePairs \/ <<d, c>> \in CasePairs

EqIgnoreCase(s, t) ==
    Len(s) = Len(t) /\ \A i \in Indices(s) : SameLetter(s[i], t[i])

(* the records an identifier denotes: serial or name, ignoring case *)
Matching(df, id) ==
    {i \in Indices(df) : \/ EqIgnoreCase(df[i].ITEM_SERIAL, id)
                         \/ EqIgnoreCase(df[i].ITEM_NAME, id)}

RECURSIVE SumOver(_, _)
SumOver(df, I) ==
    IF I = {} THEN 0
    ELSE LET i == CHOOSE x \in I : TRUE
         IN  df[i].QUANTITY.n + SumOver(df, I \ {i})

(* historical usage of an item by a department, and by all departments *)
Usage(df, id, dep) ==
    SumOver(df, {i \in Matching(df, id) : df[i].DEPARTMENT_CAT = dep})

TotalUsage(df, id) == SumOver(df, Matching(df, id))

UsedBy(df, id) == {df[i].DEPARTMENT_CAT : i \in Matching(df, id)}

(* first row of the table in which an item is issued to a department *)
FirstUse(df, id, dep) ==
    CHOOSE i \in Matching(df, id) :
        /\ df[i].DEPARTMENT_CAT = dep
        /\ \A j \in Matching(df, id) : df[j].DEPARTMENT_CAT = dep => i <= j

(* the frames the latest call returned, each with its identifier, as       *)
(* sequences of <<department, percentage>>                                 *)
ReturnedShares ==
    IF last_call.function = "calculate_proportion" /\ ~last_call.proportions.none
    THEN {[item |-> last_call.identifier,
           shares |-> [k \in Indices(last_call.proportions.rows) |->
                          <<last_call.proportions.rows[k]["DEPARTMENT_CAT"],
                            last_call.proportions.rows[k]["QUANTITY"]>>]]}
    ELSE {[item |-> last_call.allocations[e].item,
           shares |-> [k \in Indices(last_call.allocations[e].table.rows) |->
                          <<last_call.allocations[e].table.rows[k]["Department"],
                            last_call.allocations[e].table.rows[k]["Proportion (%)"]>>]]
          : e \in Indices(last_call.allocations)}

RECURSIVE SumShares(_, _)
SumShares(shares, k) ==
    IF k > Len(shares) THEN Fin(0, 1)
    ELSE FAdd(shares[k][2], SumShares(shares, k + 1))

(* |x - 100| <= 0.01 *)
Is100WithinTolerance(x) ==
    IsFinite(x) /\ Abs(100 * x.n - 10000 * x.d) <= x.d

-----------------------------------------------------------------------------
(* C1: whenever calculate_proportion returns a frame (the identifier      *)
(* matches at least one record), its percentages sum to 100 within 0.01,  *)
(* for every table, tables whose matching quantities sum to zero included. *)
C1_PercentagesSumTo100 ==
    \A r \in ReturnedShares : Is100WithinTolerance(SumShares(r.shares, 1))

(* the tables the latest allocate_quantity returned, each with its         *)
(* identifier, the quantity requested for it, and its rows as             *)
(* <<department, percentage, allocated quantity>>                         *)
ReturnedAllocations ==
    {[item |-> last_call.allocations[e].item,
      quantity |-> (CHOOSE r \in {last_call.requests[i] : i \in Indices(last_call.requests)} :
                       r.item = last_call.allocations[e].item).quantity,
      rows |-> [k \in Indices(last_call.allocations[e].table.rows) |->
                   <<last_call.allocations[e].table.rows[k]["Department"],
                     last_call.allocations[e].table.rows[k]["Proportion (%)"],
                     last_call.allocations[e].table.rows[k]["Allocated Quantity"]>>]]
     : e \in Indices(last_call.allocations)}

RECURSIVE SumAllocated(_, _)
SumAllocated(rows, k) ==
    IF k > Len(rows) THEN Fin(0, 1)
    ELSE FAdd(rows[k][3], SumAllocated(rows, k + 1))

(* usage A = 30, B = 70 and nothing else *)
UsageIs30And70(df, id) ==
    /\ UsedBy(df, id) = {"A", "B"}
    /\ Usage(df, id, "A") = 30
    /\ Usage(df, id, "B") = 70

(* three departments with the same positive usage *)
ThreeEqualUsers(df, id) ==
    /\ UsedBy(df, id) = {"A", "B", "C"}
    /\ Usage(df, id, "A") > 0
    /\ Usage(df, id, "A") = Usage(df, id, "B")
    /\ Usage(df, id, "B") = Usage(df, id, "C")

(* C3: in every table allocate_quantity returns, a row's percentage p is  *)
(* the department's share of the item's historical usage and its          *)
(* allocated quantity is a whole number nearest to q * p / 100 (a row     *)
(* whose percentage is not a finite number has no finite allocation);     *)
(* usage A = 30, B = 70 and q = 50 give B 70% 35, then A 30% 15.          *)
C3_AllocatedIsNearestWhole ==
    \A r \in ReturnedAllocations :
        /\ \A k \in Indices(r.rows) :
              LET dep == r.rows[k][1]
                  pct == r.rows[k][2]
                  a == r.rows[k][3]
                  q == r.quantity
              IN  IF IsFinite(pct)
                  THEN /\ pct.n * TotalUsage(data, r.item)
                            = 100 * Usage(data, r.item, dep) * pct.d
                       /\ IsFinite(a) /\ a.d = 1
                       /\ 2 * Abs(a.n * (100 * q.d * pct.d) - q.n * pct.n)
                            <= 100 * q.d * pct.d
                  ELSE ~IsFinite(a)
        /\ (UsageIs30And70(data, r.item) /\ r.quantity = Fin(50, 1))
              => r.rows = << <<"B", Fin(70, 1), Fin(35, 1)>>,
                             <<"A", Fin(30, 1), Fin(15, 1)>> >>

C3_Witness ==
    \E r \in ReturnedAllocations :
        /\ UsageIs30And70(data, r.item)
        /\ r.quantity = Fin(50, 1)
        /\ r.rows[1][3] = Fin(35, 1)
        /\ r.rows[2][3] = Fin(15, 1)

(* C5 (amended): in every frame calculate_proportion returns and in every *)
(* table allocate_quantity returns, each department that used the item    *)
(* appears exactly once and no row has a greater percentage than a row    *)
(* above it; allocate_quantity keeps the rows in the order in which       *)
(* calculate_proportion returned them.  Nothing is said of the order of   *)
(* departments of equal percentage.                                       *)
C5_RowsUniqueAndDescending ==
    /\ \A r \in ReturnedShares :
          /\ \A i, j \in Indices(r.shares) : i # j => r.shares[i][1] # r.shares[j][1]
          /\ {r.shares[k][1] : k \in Indices(r.shares)} = UsedBy(data, r.item)
          /\ \A i, j \in Indices(r.shares) :
                i < j => ~FGt(r.shares[j][2], r.shares[i][2])
    /\ last_call.function = "allocate_quantity" =>
          \A r \in ReturnedShares :
              /\ IsCached(proportion_cache, r.item)
              /\ r.shares =
                    [k \in Indices(Cached(proportion_cache, r.item).rows) |->
                        <<Cached(proportion_cache, r.item).rows[k]["DEPARTMENT_CAT"],
                          Cached(proportion_cache, r.item).rows[k]["QUANTITY"]>>]

C5_Witness ==
    /\ last_call.function = "allocate_quantity"
    /\ \E r \in ReturnedShares :
          /\ Len(r.shares) = 3
          /\ FGt(r.shares[1][2], r.shares[2][2])
          /\ r.shares[2][2] = r.shares[3][2]

(* C5 as claimed: the rows are unique and descending and, in addition,    *)
(* departments of equal percentage keep their input order, be that the    *)
(* order of their first records in the table or the order of the grouped  *)
(* departments handed to the sort.                                        *)
C5_TiesKeepInputOrder ==
    /\ C5_RowsUniqueAndDescending
    /\ \A r \in ReturnedShares :
          \A i, j \in Indices(r.shares) :
              (i < j /\ r.shares[i][2] = r.shares[j][2]) =>
                  \/ FirstUse(data, r.item, r.shares[i][1])
                        < FirstUse(data, r.item, r.shares[j][1])
                  \/ Ord(r.shares[i][1]) < Ord(r.shares[j][1])

(* C7: allocate_quantity rounds each row on its own and reconciles        *)
(* nothing: within a returned table, rows of equal percentage carry equal *)
(* allocated quantities, so that three departments of equal usage and a   *)
(* requested quantity of 1 get allocations whose sum is not 1.            *)
C7_RowsRoundedIndependently ==
    \A r \in ReturnedAllocations :
        /\ \A i, j \in Indices(r.rows) :
              r.rows[i][2] = r.rows[j][2] => r.rows[i][3] = r.rows[j][3]
        /\ (ThreeEqualUsers(data, r.item) /\ r.quantity = Fin(1, 1))
              => SumAllocated(r.rows, 1) # r.quantity

C7_Witness ==
    \E r \in ReturnedAllocations :
        /\ ThreeEqualUsers(data, r.item)
        /\ r.quantity = Fin(1, 1)
        /\ SumAllocated(r.rows, 1) = Fin(0, 1)

-----------------------------------------------------------------------------
BySerial(df, id) == {i \in Indices(df) : EqIgnoreCase(df[i].ITEM_SERIAL, id)}

ByName(df, id) == {i \in Indices(df) : EqIgnoreCase(df[i].ITEM_NAME, id)}

(* serial s and name n denote one and the same item of the table: the     *)
(* records carrying the serial are those carrying the name, and neither   *)
(* text occurs in the other column of any other record                    *)
SameItem(df, s, n) ==
    /\ BySerial(df, s) # {}
    /\ BySerial(df, s) = ByName(df, n)
    /\ ByName(df, s) \subseteq BySerial(df, s)
    /\ BySerial(df, n) \subseteq ByName(df, n)

RequestedItems(requests) == {requests[i].item : i \in Indices(requests)}

(* C2: the keys of the map allocate_quantity returns are exactly the      *)
(* requested identifiers that match at least one record, whatever else is *)
(* requested with them; calculate_proportion returns None exactly for an  *)
(* identifier without a matching record, and no key maps to an empty      *)
(* table.                                                                 *)
C2_KeysAreTheMatchingIdentifiers ==
    /\ \A e \in proportion_cache : e.value.none <=> Matching(data, e.key) = {}
    /\ last_call.function = "allocate_quantity" =>
          /\ {last_call.allocations[e].item : e \in Indices(last_call.allocations)}
                = {id \in RequestedItems(last_call.requests) : Matching(data, id) # {}}
          /\ \A e \in Indices(last_call.allocations) :
                /\ ~last_call.allocations[e].table.none
                /\ last_call.allocations[e].table.rows # <<>>
          /\ \A e, f \in Indices(last_call.allocations) :
                e # f => last_call.allocations[e].item # last_call.allocations[f].item

C2_Witness ==
    /\ last_call.function = "allocate_quantity"
    /\ Len(last_call.requests) = 2
    /\ Len(last_call.allocations) = 1
    /\ \E id \in RequestedItems(last_call.requests) : Matching(data, id) = {}

(* C4: calculate_proportion computes its shares from exactly the records  *)
(* whose serial or name equals the identifier ignoring case; identifiers  *)
(* that differ only in case get identical results, and so do a serial and *)
(* a name that denote the same item.                                      *)
C4_MatchesIgnoringCase ==
    /\ \A e \in proportion_cache :
          IF Matching(data, e.key) = {} THEN e.value.none
          ELSE /\ ~e.value.none
               /\ {e.value.rows[k]["DEPARTMENT_CAT"] : k \in Indices(e.value.rows)}
                     = UsedBy(data, e.key)
               /\ \A k \in Indices(e.value.rows) :
                     LET pct == e.value.rows[k]["QUANTITY"]
                     IN  /\ IsFinite(pct)
                         /\ pct.n * TotalUsage(data, e.key)
                              = 100 * pct.d
                                  * Usage(data, e.key, e.value.rows[k]["DEPARTMENT_CAT"])
    /\ \A e, f \in proportion_cache :
          (EqIgnoreCase(e.key, f.key) \/ SameItem(data, e.key, f.key))
              => e.value = f.value

C4_Witness ==
    \E e, f, g \in proportion_cache :
        /\ e.key # f.key
        /\ EqIgnoreCase(e.key, f.key)
        /\ SameItem(data, f.key, g.key)
        /\ ~e.value.none
        /\ Len(e.value.rows) = 2
        /\ e.value = f.value
        /\ f.value = g.value

(* C6: what calculate_proportion returned for an identifier it returns    *)
(* again on every later call, whatever was called in between: a stored    *)
(* result never changes, a repeated call returns the stored result, no    *)
(* call of allocate_quantity fails, and allocate_quantity called again    *)
(* for an identifier and quantity returns the same table.                 *)
C6_RepeatedCallsAgree ==
    [][ /\ \A e \in proportion_cache : e \in proportion_cache'
        /\ last_call'.raised = ""
        /\ (/\ last_call'.function = "calculate_proportion"
            /\ IsCached(proportion_cache, last_call'.identifier))
              => last_call'.proportions
                    = Cached(proportion_cache, last_call'.identifier)
        /\ \A r \in ReturnedAllocations : \A t \in ReturnedAllocations' :
              (r.item = t.item /\ r.quantity = t.quantity) => r.rows = t.rows
      ]_vars

C6_Witness ==
    /\ last_call.function = "calculate_proportion"
    /\ ~last_call.proportions.none
    /\ HasColumn(last_call.proportions, "QUANTITY")
    /\ \E i \in Indices(item_quantities) :
          item_quantities[i].item = last_call.identifier

-----------------------------------------------------------------------------
(* The Streamlit script, lines 112-136.  Every interaction reruns it from *)
(* the top: the load (cached after the first success), the widgets, and,  *)
(* when the button was pressed, the calculation.                          *)

LoadKey == "load_data_from_google_sheet"

(* load_data_from_google_sheet behind the always-missing store *)
NeverLoaded(cache) == FALSE

(* @st.cache_data on a function of no argument and no ttl: one entry *)
IsLoaded(cache) == IsCached(cache, LoadKey)

(* data["ITEM NAME"].unique().tolist(): names in order of first appearance *)
unique_item_names(df) ==
    LET first == {i \in Indices(df) :
                     \A j \in Indices(df) : df[j].ITEM_NAME = df[i].ITEM_NAME => i <= j}
    IN  [k \in 1..Cardinality(first) |->
            df[CHOOSE i \in first : Cardinality({j \in first : j < i}) = k - 1].ITEM_NAME]

Elements(q) == {q[k] : k \in Indices(q)}

(* st.multiselect(..., max_selections=10) takes a further selection *)
can_select_more(selected) == Len(selected) < MaxSelections

(* st.number_input(min_value=0.0): a smaller value becomes the minimum *)
number_input(value) == IF FGt(Fin(0, 1), value) THEN Fin(0, 1) ELSE value

(* a button that always calculates *)
AlwaysAllocate(selected, quantities) == TRUE

(* line 126 *)
should_allocate(selected, quantities) ==
    /\ selected # <<>>
    /\ \E k \in Indices(quantities) : FGt(quantities[k].quantity, Fin(0, 1))

(* One run of the script with the widgets holding `selected` and           *)
(* `quantities`, the button pressed or not.                                *)
ScriptRun(selected, quantities, button) ==
    LET hit == IsLoaded(load_cache)
        loaded == IF hit THEN [raised |-> "", table |-> Cached(load_cache, LoadKey)]
                  ELSE load_data_from_google_sheet(sheet)
    IN  /\ hit \/ fetch_count < MaxFetches
        /\ fetch_count' = IF hit THEN fetch_count ELSE fetch_count + 1
        /\ UNCHANGED <<sheet, sort_ties>>
        /\ IF loaded.raised # ""
           THEN /\ last_call' = [NoCall EXCEPT !.function = LoadKey,
                                               !.raised = loaded.raised]
                /\ UNCHANGED <<load_cache, data, proportion_cache,
                               selected_identifiers, item_quantities>>
           ELSE /\ load_cache' = Store(load_cache, LoadKey, loaded.table)
                /\ data' = loaded.table
                /\ selected_identifiers' = selected
                /\ item_quantities' = quantities
                /\ IF button /\ should_allocate(selected, quantities)
                   THEN LET out == allocate_quantity(loaded.table, quantities,
                                                     proportion_cache, sort_ties)
                        IN  /\ proportion_cache' = out.cache
                            /\ last_call' =
                                  [NoCall EXCEPT
                                      !.function = "allocate_quantity",
                                      !.requests = quantities,
                                      !.allocations = out.allocations,
                                      !.raised = out.raised,
                                      !.button = TRUE,
                                      !.shown = IF out.allocations # <<>>
                                                THEN "results" ELSE "error"]
                   ELSE /\ proportion_cache' = proportion_cache
                        /\ last_call' =
                              [NoCall EXCEPT
                                  !.button = button,
                                  !.shown = IF button THEN "warning" ELSE ""]

(* the page is opened or refreshed *)
OpenPage == ScriptRun(selected_identifiers, item_quantities, FALSE)

(* the user adds the first option not yet selected *)
SelectItem ==
    LET options == unique_item_names(data)
    IN  /\ load_cache # {}
        /\ can_select_more(selected_identifiers)
        /\ \E k \in Indices(options) :
              /\ options[k] \notin Elements(selected_identifiers)
              /\ \A j \in 1..(k - 1) : options[j] \in Elements(selected_identifiers)
              /\ ScriptRun(Append(selected_identifiers, options[k]),
                           Append(item_quantities,
                                  [item |-> options[k], quantity |-> Fin(0, 1)]),
                           FALSE)

(* the user removes the selection made last; its number_input goes with it *)
DeselectLast ==
    /\ selected_identifiers # <<>>
    /\ ScriptRun(SubSeq(selected_identifiers, 1, Len(selected_identifiers) - 1),
                 SubSeq(item_quantities, 1, Len(item_quantities) - 1),
                 FALSE)

TypedValues == {Fin(-1, 1), Fin(0, 1), Fin(1, 2)}

(* the user types a value into the number_input of the latest selection *)
EnterQuantity ==
    \E typed \in TypedValues :
        LET k == Len(item_quantities)
        IN  /\ item_quantities # <<>>
            /\ number_input(typed) # Fin(0, 1) =>
                  Cardinality({j \in Indices(item_quantities) \ {k} :
                                  item_quantities[j].quantity # Fin(0, 1)}) < MaxEntered
            /\ ScriptRun(selected_identifiers,
                         [item_quantities EXCEPT ![k].quantity = number_input(typed)],
                         FALSE)

(* the user presses Calculate Allocation *)
PressCalculate == ScriptRun(selected_identifiers, item_quantities, TRUE)

(* someone deletes the first record of the worksheet *)
EditSheet ==
    /\ sheet # <<>>
    /\ sheet' = Tail(sheet)
    /\ UNCHANGED <<load_cache, fetch_count, data, proportion_cache, sort_ties,
                   selected_identifiers, item_quantities, last_call>>

(* a run whose fetch fails (lines 31-35 raise): nothing is stored *)
FetchFails ==
    /\ ~IsLoaded(load_cache)
    /\ fetch_count < MaxFetches
    /\ fetch_count' = fetch_count + 1
    /\ last_call' = [NoCall EXCEPT !.function = LoadKey, !.raised = "APIError"]
    /\ UNCHANGED <<sheet, load_cache, data, proportion_cache, sort_ties,
                   selected_identifiers, item_quantities>>

InitSession(sheets, builds) ==
    /\ sheet \in sheets
    /\ load_cache = {}
    /\ fetch_count = 0
    /\ data = <<>>
    /\ proportion_cache = {}
    /\ sort_ties \in builds
    /\ selected_identifiers = <<>>
    /\ item_quantities = <<>>
    /\ last_call = NoCall

SheetRecord(date, quantity, name) ==
    [DATE |-> date, ITEM_SERIAL |-> Str("a", "1"), ITEM_NAME |-> name,
     DEPARTMENT_CAT |-> "A", QUANTITY |-> quantity]

DateCells ==
    {[parses |-> FALSE, year |-> 0], [parses |-> TRUE, year |-> 2023],
     [parses |-> TRUE, year |-> 2024], [parses |-> TRUE, year |-> 2025]}

QuantityCells == {[numeric |-> FALSE, value |-> 0], [numeric |-> TRUE, value |-> 30]}

LoadRecords ==
    {SheetRecord(d, q, Str("A", "b")) : d \in DateCells, q \in QuantityCells}

InitLoad == InitSession(SeqsUpTo(LoadRecords, MaxSheetRows), SortBuilds)

NextLoad ==
    \/ OpenPage
    \/ SelectItem
    \/ DeselectLast
    \/ EnterQuantity
    \/ PressCalculate
    \/ EditSheet
    \/ FetchFails

SpecLoad == InitLoad /\ [][NextLoad]_vars

(* a worksheet of eleven items, one more than the multiselect accepts *)
MenuNames ==
    <<Str("a", "1"), Str("a", "a"), Str("a", "b"), Str("a", "c"),
      Str("b", "1"), Str("b", "a"), Str("b", "b"), Str("b", "c"),
      Str("c", "1"), Str("c", "a"), Str("c", "b")>>

MenuSheet ==
    [k \in Indices(MenuNames) |->
        SheetRecord([parses |-> TRUE, year |-> 2024],
                    [numeric |-> TRUE, value |-> 30], MenuNames[k])]

InitMenu == InitSession({MenuSheet}, {"stable"})

NextMenu ==
    \/ OpenPage
    \/ SelectItem
    \/ DeselectLast
    \/ EnterQuantity
    \/ PressCalculate

SpecMenu == InitMenu /\ [][NextMenu]_vars

-----------------------------------------------------------------------------
LoadedTable == Cached(load_cache, LoadKey)

(* C8: once the table is loaded, no interaction fetches again or changes  *)
(* the stored table, and every run of the script, calculating or not,     *)
(* works on that table, whatever happens to the worksheet meanwhile.      *)
C8_TableLoadedOnce ==
    [][ load_cache # {} =>
           /\ load_cache' = load_cache
           /\ fetch_count' = fetch_count
           /\ data' = LoadedTable
      ]_vars

(* a calculation made on the loaded table after the worksheet has changed *)
C8_Witness ==
    /\ load_cache # {}
    /\ fetch_count = 1
    /\ last_call.function = "allocate_quantity"
    /\ last_call.allocations # <<>>
    /\ data = LoadedTable
    /\ load_data_from_google_sheet(sheet).table # LoadedTable

(* the records of a worksheet that have a numeric quantity and a date in   *)
(* 2024 or later, in their order, with the two cells converted            *)
ValidRecords(records) ==
    LET keep == {i \in Indices(records) :
                    /\ records[i].QUANTITY.numeric
                    /\ records[i].DATE.parses
                    /\ records[i].DATE.year >= 2024}
    IN  [k \in 1..Cardinality(keep) |->
            LET r == records[CHOOSE i \in keep :
                                 Cardinality({j \in keep : j < i}) = k - 1]
            IN  [DATE |-> [nat |-> FALSE, year |-> r.DATE.year],
                 ITEM_SERIAL |-> r.ITEM_SERIAL,
                 ITEM_NAME |-> r.ITEM_NAME,
                 DEPARTMENT_CAT |-> r.DEPARTMENT_CAT,
                 QUANTITY |-> [cls |-> "fin", n |-> r.QUANTITY.value, d |-> 1]]]

(* C9: a run that fetches at least one record raises nothing and stores   *)
(* exactly the fetched records whose quantity is a number and whose date  *)
(* is a timestamp in 2024 or later, in their original order.              *)
C9_LoadKeepsExactlyTheValidRecords ==
    [][ (/\ fetch_count' = fetch_count + 1
         /\ last_call'.raised # "APIError"
         /\ sheet # <<>>)
           => /\ last_call'.raised = ""
              /\ load_cache' # {}
              /\ LoadedTable' = ValidRecords(sheet)
              /\ data' = ValidRecords(sheet)
      ]_vars

(* two records fetched, the first dropped for its quantity or its date,    *)
(* the second kept                                                        *)
C9_Witness ==
    /\ load_cache # {}
    /\ Len(sheet) = 2
    /\ LoadedTable = ValidRecords(sheet)
    /\ Len(LoadedTable) = 1
    /\ sheet[2].QUANTITY.numeric /\ sheet[2].DATE.parses /\ sheet[2].DATE.year >= 2024
    /\ last_call.raised = ""

(* C10: in a run in which Calculate was pressed, allocate_quantity is     *)
(* called exactly when an identifier is selected and some entered quantity *)
(* is greater than zero, and a warning is shown otherwise; a request that *)
(* reaches allocate_quantity has 1 to 10 distinct identifiers, the        *)
(* selected ones, and no negative quantity.                               *)
C10_CalculateIsGuarded ==
    /\ last_call.button =>
          /\ last_call.function = "allocate_quantity"
                <=> /\ selected_identifiers # <<>>
                    /\ \E k \in Indices(item_quantities) :
                          FGt(item_quantities[k].quantity, Fin(0, 1))
          /\ last_call.function # "allocate_quantity" =>
                /\ last_call.shown = "warning"
                /\ last_call.allocations = <<>>
    /\ last_call.function = "allocate_quantity" =>
          /\ last_call.button
          /\ last_call.requests = item_quantities
          /\ Len(last_call.requests) >= 1
          /\ Len(last_call.requests) <= 10
          /\ [k \in Indices(last_call.requests) |-> last_call.requests[k].item]
                = selected_identifiers
          /\ \A j, k \in Indices(last_call.requests) :
                j # k => last_call.requests[j].item # last_call.requests[k].item
          /\ \A k \in Indices(last_call.requests) :
                ~FGt(Fin(0, 1), last_call.requests[k].quantity)

(* a request of ten identifiers calculated *)
C10_Witness ==
    /\ last_call.button
    /\ last_call.function = "allocate_quantity"
    /\ Len(last_call.requests) = 10
    /\ last_call.shown = "results"

=============================================================================
